---- MODULE Spec2Model ----
(***************************************************************************)
(* Defaults-list composition of hydra (hydra/_internal/defaults_list.py).  *)
(*                                                                         *)
(* DefaultElement objects live in a heap (a sequence of records, an object *)
(* is its index), because the code shares and mutates them in place; a     *)
(* Python list is a sequence of heap indices.  The recursion of            *)
(* _expand_defaults_list_impl / _compute_element_defaults_list_impl is a    *)
(* stack of frames, the last frame being the running activation.           *)
(***************************************************************************)
EXTENDS Integers, Sequences, FiniteSets, TLC

VARIABLES
    mode,       \* which public entry point the caller uses: "compute" | "expand"
    element,    \* the argument of compute_element_defaults_list
    seed,       \* the argument of expand_defaults_list (records, as passed)
    rlist,      \* the declared defaults list of the primary fragment "root"
    heap,       \* DefaultElement objects
    g2c,        \* group_to_choice: fully-qualified group name -> config name
    dgroups,    \* delete_groups: insertion-ordered DeleteKey -> count
    stack,      \* activations of _expand_defaults_list_impl
    pc,         \* "start" | "running" | "post" | "done" | "error"
    ret,        \* list handed to _post_process_deletes / returned to the caller
    err,        \* the exception raised, when pc = "error"
    phase,      \* 1: first top-level call, 2: the call fed with the first result
    first,      \* value of the list returned by the first call
    src         \* history: the plain selections expanded, in source order

vars == <<mode, element, seed, rlist, heap, g2c, dgroups, stack, pc, ret, err, phase, first, src>>

----------------------------------------------------------------------------
(* Bounds of the checked inputs *)

MaxList == 3
MaxSeed == 3

----------------------------------------------------------------------------
(* DefaultElement (hydra/core/__init__.py) *)

NONE == "None"

DefaultElement(name, group, pkg) ==
    [config_name |-> name, config_group |-> group, optional |-> FALSE,
     package |-> pkg, package2 |-> NONE, from_override |-> FALSE,
     is_add_only |-> FALSE, is_delete |-> FALSE, is_deleted |-> FALSE,
     skip_load |-> FALSE]

fully_qualified_group_name(e) == <<e.config_group, e.package>>

is_package_rename(e) == e.package2 # NONE

get_subject_package(e) == IF e.package2 = NONE THEN e.package ELSE e.package2

\* names written as OmegaConf interpolations, with the key each one selects
InterpolationKey == [x \in {"${b}"} |-> <<"b", NONE>>]

is_interpolation(e) == e.config_name \in DOMAIN InterpolationKey

\* config names that hold a path: "a/a1" names the file of group a, option a1
SlashName == [x \in {"a/a1"} |-> <<"a", "a1">>]

config_path(e) ==
    IF e.config_group # NONE THEN <<e.config_group, e.config_name>>
    ELSE IF e.config_name \in DOMAIN SlashName THEN SlashName[e.config_name]
    ELSE <<NONE, e.config_name>>

set_skip_load(e) == [e EXCEPT !.skip_load = TRUE]

----------------------------------------------------------------------------
(* Entries used to build the inputs *)

Plain(g, n) == DefaultElement(n, g, NONE)
PlainAt(g, p, n) == DefaultElement(n, g, p)
Primary(n) == DefaultElement(n, NONE, NONE)
Self == DefaultElement("_self_", NONE, NONE)
Rename(g, p1, p2, n) == [DefaultElement(n, g, p1) EXCEPT !.package2 = p2]
Delete(g, n) == [DefaultElement(n, g, NONE) EXCEPT !.is_delete = TRUE]
Optional(e) == [e EXCEPT !.optional = TRUE]
Override(e) == [e EXCEPT !.from_override = TRUE]
Add(e) == [e EXCEPT !.from_override = TRUE, !.is_add_only = TRUE]

----------------------------------------------------------------------------
(* ConfigRepository.load_config: the fragments of the repository.  The     *)
(* primary fragment "root" declares the list chosen in Init; every load    *)
(* hands back a fresh list.                                                *)

Found(l) == [found |-> TRUE, defaults_list |-> l]
NotFound == [found |-> FALSE, defaults_list |-> <<>>]

load_config(path, rl) ==
    CASE path = <<NONE, "root">> -> Found(rl)
      [] path = <<NONE, "no_defaults">> -> Found(<<>>)
      [] path = <<NONE, "test_overrides">> ->
            Found(<<Plain("a", "a1"), PlainAt("a", "p1", "a1"), Plain("c", "c1")>>)
      [] path = <<"a", "a1">> -> Found(<<>>)
      [] path = <<"a", "a2">> -> Found(<<Plain("b", "b1")>>)
      [] path = <<"a", "a3">> -> Found(<<Plain("c", "c1"), Plain("b", "b2")>>)
      [] path = <<"a", "a6">> -> Found(<<>>)
      [] path = <<"b", "b1">> -> Found(<<>>)
      [] path = <<"b", "b2">> -> Found(<<Plain("c", "c2")>>)
      [] path = <<"b", "b3">> -> Found(<<>>)
      [] path = <<"c", "c1">> -> Found(<<>>)
      [] path = <<"c", "c2">> -> Found(<<>>)
      [] path = <<"c", "b1">> -> Found(<<>>)
      [] path = <<"c", "b3">> -> Found(<<>>)
      [] OTHER -> NotFound

----------------------------------------------------------------------------
(* Sequence helpers *)

SeqsUpTo(S, n) == UNION {[1..k -> S] : k \in 0..n}

Max(S) == CHOOSE x \in S : \A y \in S : y <= x
Min(S) == CHOOSE x \in S : \A y \in S : x <= y

Reverse(s) == [k \in 1..Len(s) |-> s[Len(s) + 1 - k]]

RemoveAt(s, k) == SubSeq(s, 1, k - 1) \o SubSeq(s, k + 1, Len(s))

\* s[k:k] = t  (insert t before position k)
InsertAt(s, k, t) == SubSeq(s, 1, k - 1) \o t \o SubSeq(s, k, Len(s))

RECURSIVE Flatten(_)
Flatten(ss) == IF ss = <<>> THEN <<>> ELSE Head(ss) \o Flatten(Tail(ss))

\* the values of a list of objects
Values(l, h) == [k \in 1..Len(l) |-> h[l[k]]]

----------------------------------------------------------------------------
(* DeleteKey and delete_if_matching *)

\* lines 276-280 with must_delete set whatever the origin of the directive
DeleteKeyMust(e) ==
    [fqgn |-> fully_qualified_group_name(e),
     config_name |-> IF e.config_name # "_delete_" THEN e.config_name ELSE NONE,
     must_delete |-> TRUE]

DeleteKey(e) ==
    [fqgn |-> fully_qualified_group_name(e),
     config_name |-> IF e.config_name # "_delete_" THEN e.config_name ELSE NONE,
     must_delete |-> e.from_override]

HasKey(dg, key) == \E k \in 1..Len(dg) : dg[k].key = key

KeyMatches(key, e) ==
    /\ key.fqgn = fully_qualified_group_name(e)
    /\ (key.config_name = NONE \/ key.config_name = e.config_name)

\* lines 224-241 without lines 231 and 237: a match is not counted
delete_if_matching_uncounted(dg, d, h) ==
    LET hit == {k \in 1..Len(dg) : KeyMatches(dg[k].key, h[d])}
    IN  [matched |-> hit # {},
         dg |-> dg,
         heap |-> IF hit = {} THEN h
                  ELSE [h EXCEPT ![d] = set_skip_load([@ EXCEPT !.is_deleted = TRUE])]]

delete_if_matching(dg, d, h) ==
    LET hit == {k \in 1..Len(dg) : KeyMatches(dg[k].key, h[d])}
    IN  [matched |-> hit # {},
         dg |-> [k \in 1..Len(dg) |->
                    IF k \in hit THEN [dg[k] EXCEPT !.count = @ + 1] ELSE dg[k]],
         heap |-> IF hit = {} THEN h
                  ELSE [h EXCEPT ![d] = set_skip_load([@ EXCEPT !.is_deleted = TRUE])]]

----------------------------------------------------------------------------
(* Activations of _expand_defaults_list_impl *)

Frame(self_name, defaults, original) ==
    [self_name |-> self_name,     \* NONE when called from expand_defaults_list
     defaults |-> defaults,       \* defaults_list.effective
     original |-> original,       \* defaults_list.original (a deep copy)
     i |-> Len(defaults),         \* position of the reversed loop
     d |-> 0,                     \* the entry whose expansion is running
     ret |-> <<>>,                \* sublists, in the order they were appended
     deferred |-> <<>>,           \* deferred_overrides
     result |-> <<>>,
     g2c2 |-> <<>>,               \* group_to_choice2
     j |-> 1,                     \* position in deferred_overrides
     at |-> "loop",               \* "loop" | "renames" | "verify" | "deferred"
     decl |-> NONE,               \* history: the name entry d was declared with
     src |-> <<>>]                \* history: as the variable src, for this list

NoFrame == Frame(NONE, <<>>, <<>>)

----------------------------------------------------------------------------
(* _validate_self *)

\* lines 106-124 with the implicit _self_ appended instead of inserted at 0
validate_self_appended(el, eff, h) ==
    LET selfs == {k \in 1..Len(eff) : h[eff[k]].config_name = "_self_"}
    IN  IF Cardinality(selfs) >= 2
        THEN [err |-> "DuplicateSelf", effective |-> eff, heap |-> h]
        ELSE IF \E k \in selfs : h[eff[k]].config_group # NONE
        THEN [err |-> "AssertionError", effective |-> eff, heap |-> h]
        ELSE IF selfs # {}
        THEN [err |-> NONE, effective |-> eff,
              heap |-> [x \in 1..Len(h) |->
                         IF \E k \in selfs : eff[k] = x
                         THEN [h[x] EXCEPT !.config_group = h[el].config_group,
                                           !.package = h[el].package]
                         ELSE h[x]]]
        ELSE [err |-> NONE, effective |-> eff \o <<Len(h) + 1>>,
              heap |-> Append(h, [h[el] EXCEPT !.config_name = "_self_",
                                               !.from_override = FALSE])]

\* lines 106-124 without the check of lines 111-114
validate_self_unchecked(el, eff, h) ==
    LET selfs == {k \in 1..Len(eff) : h[eff[k]].config_name = "_self_"}
    IN  IF selfs # {}
        THEN [err |-> NONE, effective |-> eff,
              heap |-> [x \in 1..Len(h) |->
                         IF \E k \in selfs : eff[k] = x
                         THEN [h[x] EXCEPT !.config_group = h[el].config_group,
                                           !.package = h[el].package]
                         ELSE h[x]]]
        ELSE [err |-> NONE, effective |-> <<Len(h) + 1>> \o eff,
              heap |-> Append(h, [h[el] EXCEPT !.config_name = "_self_",
                                               !.from_override = FALSE])]

validate_self(el, eff, h) ==
    LET selfs == {k \in 1..Len(eff) : h[eff[k]].config_name = "_self_"}
    IN  IF Cardinality(selfs) >= 2
        THEN [err |-> "DuplicateSelf", effective |-> eff, heap |-> h]
        ELSE IF \E k \in selfs : h[eff[k]].config_group # NONE
        THEN [err |-> "AssertionError", effective |-> eff, heap |-> h]
        ELSE IF selfs # {}
        THEN [err |-> NONE, effective |-> eff,
              heap |-> [x \in 1..Len(h) |->
                         IF \E k \in selfs : eff[k] = x
                         THEN [h[x] EXCEPT !.config_group = h[el].config_group,
                                           !.package = h[el].package]
                         ELSE h[x]]]
        ELSE [err |-> NONE, effective |-> <<Len(h) + 1>> \o eff,
              heap |-> Append(h, [h[el] EXCEPT !.config_name = "_self_",
                                               !.from_override = FALSE])]

----------------------------------------------------------------------------
(* _compute_element_defaults_list_impl, up to its call of                  *)
(* _expand_defaults_list_impl: it returns a list, raises, or starts an     *)
(* activation                                                              *)

\* a raised exception: its kind and what its message names
Exception(kind, about) == [kind |-> kind, about |-> about]
NoException == Exception(NONE, NONE)

Outcome(kind, sub, e, frame, h, dg) ==
    [kind |-> kind, sub |-> sub, err |-> e, frame |-> frame, heap |-> h, dg |-> dg]

\* lines 127-169 without the branch of lines 146-148: a missing fragment
\* is an error whether the entry is optional or not
compute_impl_missing_is_error(d, h, dg, rl) ==
    LET dm == delete_if_matching(dg, d, h)
        loaded == load_config(config_path(h[d]), rl)
        n == Len(loaded.defaults_list)
        h1 == h \o loaded.defaults_list
        v == validate_self(d, [k \in 1..n |-> Len(h) + k], h1)
    IN  IF dm.matched
        THEN Outcome("ret", <<>>, NoException, NoFrame, dm.heap, dm.dg)
        ELSE IF ~loaded.found
        THEN Outcome("err", <<>>, Exception("MissingConfig", config_path(h[d])),
                     NoFrame, h, dg)
        ELSE IF v.err # NONE
        THEN Outcome("err", <<>>, Exception(v.err, config_path(h[d])), NoFrame, v.heap, dg)
        ELSE Outcome("push", <<>>, NoException,
                     Frame(h[d].config_name, v.effective, loaded.defaults_list),
                     v.heap, dg)

compute_element_defaults_list_impl(d, h, dg, rl) ==
    LET dm == delete_if_matching(dg, d, h)
        loaded == load_config(config_path(h[d]), rl)
        n == Len(loaded.defaults_list)
        h1 == h \o loaded.defaults_list
        v == validate_self(d, [k \in 1..n |-> Len(h) + k], h1)
    IN  IF dm.matched
        THEN Outcome("ret", <<>>, NoException, NoFrame, dm.heap, dm.dg)
        ELSE IF ~loaded.found
        THEN IF h[d].optional
             THEN Outcome("ret", <<d>>, NoException, NoFrame,
                          [h EXCEPT ![d] = set_skip_load(@)], dg)
             ELSE Outcome("err", <<>>, Exception("MissingConfig", config_path(h[d])),
                          NoFrame, h, dg)
        ELSE IF v.err # NONE
        THEN Outcome("err", <<>>, Exception(v.err, config_path(h[d])), NoFrame, v.heap, dg)
        ELSE Outcome("push", <<>>, NoException,
                     Frame(h[d].config_name, v.effective, loaded.defaults_list),
                     v.heap, dg)

----------------------------------------------------------------------------
(* Passes of _expand_defaults_list_impl over a list of objects *)

\* lines 304-313 without the test `fqgn not in group_to_choice` of line
\* 312: a later registration replaces the recorded choice
RECURSIVE register_choices_overwriting(_, _, _, _, _)
register_choices_overwriting(g, sub, k, d, h) ==
    IF k = 0 THEN g
    ELSE LET dd == h[sub[k]]
             fqgn == fully_qualified_group_name(dd)
             g1 == IF /\ dd.config_group # NONE
                      /\ dd.config_name # "_keep_"
                      /\ ~dd.is_delete
                      /\ ~dd.skip_load
                      /\ ~is_interpolation(h[d])
                   THEN [x \in DOMAIN g \cup {fqgn} |->
                            IF x = fqgn THEN dd.config_name ELSE g[x]]
                   ELSE g
         IN  register_choices_overwriting(g1, sub, k - 1, d, h)

\* lines 304-313: record the choices of a sublist, last entry first; d is
\* the entry of the enclosing loop the sublist was produced for
RECURSIVE register_choices(_, _, _, _, _)
register_choices(g, sub, k, d, h) ==
    IF k = 0 THEN g
    ELSE LET dd == h[sub[k]]
             fqgn == fully_qualified_group_name(dd)
             g1 == IF /\ dd.config_group # NONE
                      /\ dd.config_name # "_keep_"
                      /\ ~dd.is_delete
                      /\ ~dd.skip_load
                      /\ fqgn \notin DOMAIN g
                      /\ ~is_interpolation(h[d])
                   THEN g @@ (fqgn :> dd.config_name)
                   ELSE g
         IN  register_choices(g1, sub, k - 1, d, h)

is_matching(rename, other) ==
    /\ rename.config_group = other.config_group
    /\ rename.package = other.package

\* lines 201-221 with the directives left where they are (no pop, line 209)
process_renames_skipped(defaults, h) ==
    [err |-> NONE, defaults |-> defaults, heap |-> h]

RECURSIVE process_renames(_, _)
process_renames(defaults, h) ==
    LET renames == {k \in 1..Len(defaults) : is_package_rename(h[defaults[k]])}
        last_rename_index == Max(renames)
        rename == h[defaults[last_rename_index]]
        rest == RemoveAt(defaults, last_rename_index)
        renamed == {rest[k] : k \in {x \in 1..Len(rest) : is_matching(rename, h[rest[x]])}}
    IN  IF renames = {}
        THEN [err |-> NONE, defaults |-> defaults, heap |-> h]
        ELSE IF renamed = {}
        THEN [err |-> "CouldNotRename", defaults |-> rest, heap |-> h]
        ELSE process_renames(rest,
                [x \in 1..Len(h) |->
                    IF x \in renamed
                    THEN [h[x] EXCEPT !.package = get_subject_package(rename)]
                    ELSE h[x]])

\* lines 172-181 without the break of lines 177-178
find_match_anywhere(defaults, like, h) ==
    LET found == {k \in 1..Len(defaults) :
                    fully_qualified_group_name(h[defaults[k]]) = fully_qualified_group_name(h[like])}
    IN  IF found = {} THEN 0 ELSE Min(found)

\* position of the match, 0 for None
find_match_before(defaults, like, h) ==
    LET stop == Min({k \in 1..Len(defaults) : h[defaults[k]] = h[like]} \cup {Len(defaults) + 1})
        found == {k \in 1..(stop - 1) :
                    fully_qualified_group_name(h[defaults[k]]) = fully_qualified_group_name(h[like])}
    IN  IF found = {} THEN 0 ELSE Min(found)

AddConflict(defaults, k, h) ==
    LET d == h[defaults[k]]
    IN  /\ d.from_override /\ ~d.is_delete
        /\ d.is_add_only
        /\ find_match_before(defaults, defaults[k], h) # 0

NoMatchConflict(defaults, k, h) ==
    LET d == h[defaults[k]]
    IN  /\ d.from_override /\ ~d.is_delete
        /\ ~d.is_add_only
        /\ find_match_before(defaults, defaults[k], h) = 0

\* the exception of the first offending entry met when walking backwards
verify_no_add_conflicts(defaults, h) ==
    LET bad == {k \in 1..Len(defaults) :
                    AddConflict(defaults, k, h) \/ NoMatchConflict(defaults, k, h)}
    IN  IF bad = {} THEN NONE
        ELSE IF AddConflict(defaults, Max(bad), h) THEN "AlreadyInDefaults"
        ELSE "NoMatchInDefaults"

\* list.index: the first position holding an equal element
index_of(l, d, h) == Min({k \in 1..Len(l) : h[l[k]] = h[d]})

\* lines 348-360 without line 355: no group is ever marked as seen
dedup_never_seen(result, k, seen_groups, h) == SubSeq(result, k, Len(result))

\* lines 348-360
RECURSIVE dedup(_, _, _, _)
dedup(result, k, seen_groups, h) ==
    IF k > Len(result) THEN <<>>
    ELSE LET d == h[result[k]]
             fqgn == fully_qualified_group_name(d)
         IN  IF d.config_group = NONE
             THEN <<result[k]>> \o dedup(result, k + 1, seen_groups, h)
             ELSE IF fqgn \in seen_groups
             THEN dedup(result, k + 1, seen_groups, h)
             ELSE <<result[k]>> \o
                  dedup(result, k + 1,
                        IF d.is_deleted THEN seen_groups ELSE seen_groups \cup {fqgn}, h)

\* lines 79-90 with the list walked forwards: the first entry of a group wins
RECURSIVE seed_tables_forward(_, _, _, _, _)
seed_tables_forward(defaults, k, g, dg, h) ==
    IF k = 0 THEN [g2c |-> g, dg |-> dg]
    ELSE LET d == h[defaults[Len(defaults) + 1 - k]]
             key == DeleteKey(d)
             fqgn == fully_qualified_group_name(d)
         IN  IF d.is_delete
             THEN seed_tables_forward(defaults, k - 1, g,
                     IF HasKey(dg, key) THEN dg
                     ELSE Append(dg, [key |-> key, count |-> 0]), h)
             ELSE seed_tables_forward(defaults, k - 1,
                     IF d.config_group # NONE /\ fqgn \notin DOMAIN g
                     THEN g @@ (fqgn :> d.config_name) ELSE g,
                     dg, h)

\* lines 79-90 of _expand_defaults_list, from position k down to 1
RECURSIVE seed_tables(_, _, _, _, _)
seed_tables(defaults, k, g, dg, h) ==
    IF k = 0 THEN [g2c |-> g, dg |-> dg]
    ELSE LET d == h[defaults[k]]
             key == DeleteKey(d)
             fqgn == fully_qualified_group_name(d)
         IN  IF d.is_delete
             THEN seed_tables(defaults, k - 1, g,
                     IF HasKey(dg, key)
                     THEN [x \in 1..Len(dg) |->
                             IF dg[x].key = key THEN [dg[x] EXCEPT !.count = 0] ELSE dg[x]]
                     ELSE Append(dg, [key |-> key, count |-> 0]), h)
             ELSE seed_tables(defaults, k - 1,
                     IF d.config_group # NONE /\ fqgn \notin DOMAIN g
                     THEN g @@ (fqgn :> d.config_name) ELSE g,
                     dg, h)

----------------------------------------------------------------------------
(* Inputs *)

\* entries a fragment's own defaults list is built from
FragPool ==
    { Self,
      Primary("no_defaults"),
      Plain("a", "a2"),
      Plain("b", "b1"),
      Plain("b", "b3"),
      PlainAt("b", "p1", "b1"),
      Rename("b", NONE, "p1", "b1"),
      Rename("b", "p1", "p2", "b1"),
      Rename("b", NONE, "p2", "b1"),
      Delete("b", "_delete_"),
      Delete("b", "b3"),
      Delete("z", "_delete_"),
      Optional(Plain("c", "missing")),
      Plain("c", "missing"),
      Plain("c", "${b}") }

\* arguments of compute_element_defaults_list besides the primary "root"
ElementPool ==
    { Primary("no_defaults"), Primary("test_overrides"), Primary("a/a1"),
      Plain("a", "a2"), Plain("b", "b2"), PlainAt("b", "p1", "b2"),
      Plain("c", "missing"), Optional(Plain("c", "missing")) }

\* entries of the list passed to expand_defaults_list: root fragments,
\* plain selections and the entries convert_overrides_to_defaults makes
SeedPool ==
    { Self,
      Primary("no_defaults"),
      Primary("test_overrides"),
      Plain("a", "a2"),
      Plain("b", "b3"),
      Override(Plain("a", "a6")),
      Override(Plain("c", "c1")),
      Add(Plain("b", "b2")),
      Add(Plain("c", "c1")),
      Add(Plain("a", "a1")),
      Override(Delete("b", "_delete_")),
      Override(Delete("c", "c1")),
      Override(Delete("z", "_delete_")),
      Override(Rename("a", "p1", "p2", "a6")),
      Override(Rename("a", "p2", "p1", "a6")) }

\* plain selections only, for lists that select a group more than once
PlainPool ==
    { Self,
      Primary("no_defaults"),
      Plain("a", "a1"), Plain("a", "a2"), Plain("a", "a3"),
      Plain("b", "b1"), Plain("b", "b2"), Plain("b", "b3"),
      PlainAt("b", "p1", "b1"),
      Plain("c", "c1"), Plain("c", "c2") }

Started ==
    /\ heap = IF mode = "compute" THEN <<element>> ELSE seed
    /\ g2c = <<>>
    /\ dgroups = <<>>
    /\ stack = <<>>
    /\ pc = "start"
    /\ ret = <<>>
    /\ err = NoException
    /\ phase = 1
    /\ first = <<>>
    /\ src = <<>>

Init ==
    /\ \/ /\ mode = "compute"
          /\ element = Primary("root")
          /\ rlist \in SeqsUpTo(FragPool, MaxList)
          /\ seed = <<>>
       \/ /\ mode = "compute"
          /\ element \in ElementPool
          /\ rlist = <<>>
          /\ seed = <<>>
       \/ /\ mode = "expand"
          /\ seed \in SeqsUpTo(SeedPool, MaxSeed)
          /\ element = Primary("root")
          /\ rlist = <<>>
    /\ Started

\* the calls whose whole defaults tree is made of plain selections
InitPlain ==
    /\ \/ /\ mode = "compute"
          /\ element = Primary("root")
          /\ rlist \in SeqsUpTo(PlainPool, MaxList)
          /\ seed = <<>>
       \/ /\ mode = "expand"
          /\ seed \in SeqsUpTo(PlainPool \ {Self}, MaxSeed)
          /\ element = Primary("root")
          /\ rlist = <<>>
    /\ Started

\* the calls checked for termination: every kind of entry, fewer names
FairFragPool ==
    { Self,
      Plain("a", "a2"),
      Plain("b", "b1"),
      Rename("b", NONE, "p1", "b1"),
      Rename("b", "p1", "p2", "b1"),
      Delete("b", "_delete_"),
      Plain("c", "${b}") }

FairSeedPool ==
    { Primary("no_defaults"),
      Primary("test_overrides"),
      Plain("a", "a2"),
      Override(Plain("a", "a6")),
      Add(Plain("b", "b2")),
      Override(Delete("b", "_delete_")),
      Override(Rename("a", "p1", "p2", "a6")) }

InitFair ==
    /\ \/ /\ mode = "compute"
          /\ element = Primary("root")
          /\ rlist \in SeqsUpTo(FairFragPool, MaxList)
          /\ seed = <<>>
       \/ /\ mode = "compute"
          /\ element \in ElementPool
          /\ rlist = <<>>
          /\ seed = <<>>
       \/ /\ mode = "expand"
          /\ seed \in SeqsUpTo(FairSeedPool, MaxSeed)
          /\ element = Primary("root")
          /\ rlist = <<>>
    /\ Started

----------------------------------------------------------------------------
(* Steps *)

Top == stack[Len(stack)]
SetTop(f) == [stack EXCEPT ![Len(stack)] = f]

InLoop == pc = "running" /\ stack # <<>> /\ Top.at = "loop" /\ Top.i > 0
Cur == Top.defaults[Top.i]

Raise(e) ==
    /\ pc' = "error"
    /\ err' = e
    /\ stack' = <<>>

\* history: a plain selection of group fqgn declared with this name
Selection(fqgn, name) == [fqgn |-> fqgn, name |-> name]

\* history: the name the fragment of the running activation was declared with
DeclaredName == IF Len(stack) > 1 THEN stack[Len(stack) - 1].decl ELSE element.config_name

\* lines 304-315 for the sublist of entry d: the frame and the choices after
end_iteration(f, sub) == [f EXCEPT !.ret = Append(@, sub), !.i = @ - 1]

\* lines 345-346 for the expansion of the deferred entry f.deferred[f.j]
end_deferred(f, items, h) ==
    [f EXCEPT !.result = InsertAt(@, index_of(f.result, f.deferred[f.j], h), items),
              !.j = @ + 1]

\* the outcome of a call made by the running activation: the call returned
\* at once, raised, or started an activation of its own
Call(out, caller, after, g) ==
    /\ heap' = out.heap
    /\ dgroups' = out.dg
    /\ IF out.kind = "ret"
       THEN /\ stack' = SetTop(after)
            /\ g2c' = g
            /\ UNCHANGED <<pc, err>>
       ELSE IF out.kind = "err"
       THEN /\ Raise(out.err)
            /\ UNCHANGED g2c
       ELSE /\ stack' = Append(SetTop(caller), out.frame)
            /\ UNCHANGED <<pc, err, g2c>>

Inputs == <<mode, element, seed, rlist>>

\* compute_element_defaults_list up to _post_process_deletes
ComputeElementDefaultsList ==
    /\ pc = "start" /\ mode = "compute"
    /\ LET out == compute_element_defaults_list_impl(1, heap, <<>>, rlist)
       IN  /\ heap' = out.heap
           /\ dgroups' = out.dg
           /\ g2c' = <<>>
           /\ IF out.kind = "ret"
              THEN /\ ret' = out.sub
                   /\ pc' = "post"
                   /\ UNCHANGED <<stack, err>>
              ELSE IF out.kind = "err"
              THEN /\ Raise(out.err)
                   /\ UNCHANGED ret
              ELSE /\ stack' = <<out.frame>>
                   /\ pc' = "running"
                   /\ UNCHANGED <<ret, err>>
           /\ src' = IF out.kind = "ret" /\ out.sub # <<>>
                     THEN <<Selection(fully_qualified_group_name(element),
                                      element.config_name)>>
                     ELSE <<>>
    /\ UNCHANGED <<Inputs, phase, first>>

\* _expand_defaults_list up to its call of _expand_defaults_list_impl
StartExpand(defaults) ==
    LET t == seed_tables(defaults, Len(defaults), <<>>, <<>>, heap)
    IN  /\ g2c' = t.g2c
        /\ dgroups' = t.dg
        /\ stack' = <<Frame(NONE, defaults, Values(defaults, heap))>>
        /\ pc' = "running"
        /\ src' = <<>>
        /\ UNCHANGED <<heap, ret, err, Inputs, first>>

ExpandDefaultsList ==
    /\ pc = "start" /\ mode = "expand"
    /\ StartExpand([k \in 1..Len(seed) |-> k])
    /\ UNCHANGED phase

\* the caller feeds the list compute_element_defaults_list returned back
\* into expand_defaults_list
ExpandAgain ==
    /\ pc = "done" /\ mode = "compute" /\ phase = 1
    /\ StartExpand(ret)
    /\ phase' = 2

\* lines 261-272 without the check of lines 262-265
LoopSelfUnchecked ==
    /\ InLoop
    /\ heap[Cur].config_name = "_self_"
    /\ LET f == Top
           d == heap[Cur]
           fqgn == fully_qualified_group_name(d)
           c == Len(heap) + 1
           h1 == Append(heap, [d EXCEPT !.config_name =
                                  IF fqgn \in DOMAIN g2c THEN g2c[fqgn] ELSE f.self_name])
       IN  /\ heap' = h1
           /\ g2c' = register_choices(g2c, <<c>>, 1, c, h1)
           /\ stack' = SetTop([end_iteration(f, <<c>>) EXCEPT
                                   !.src = <<Selection(fqgn, DeclaredName)>> \o @])
           /\ UNCHANGED <<pc, err>>
    /\ UNCHANGED <<Inputs, dgroups, ret, phase, first, src>>

LoopSelf ==
    /\ InLoop
    /\ heap[Cur].config_name = "_self_"
    /\ LET f == Top
           d == heap[Cur]
           fqgn == fully_qualified_group_name(d)
           c == Len(heap) + 1
           h1 == Append(heap, [d EXCEPT !.config_name =
                                  IF fqgn \in DOMAIN g2c THEN g2c[fqgn] ELSE f.self_name])
       IN  IF f.self_name = NONE
           THEN /\ Raise(Exception("SelfNameNotSpecified", NONE))
                /\ UNCHANGED <<heap, g2c>>
           ELSE /\ heap' = h1
                /\ g2c' = register_choices(g2c, <<c>>, 1, c, h1)
                /\ stack' = SetTop([end_iteration(f, <<c>>) EXCEPT
                                        !.src = <<Selection(fqgn, DeclaredName)>> \o @])
                /\ UNCHANGED <<pc, err>>
    /\ UNCHANGED <<Inputs, dgroups, ret, phase, first, src>>

LoopRename ==
    /\ InLoop
    /\ heap[Cur].config_name # "_self_"
    /\ is_package_rename(heap[Cur])
    /\ g2c' = register_choices(g2c, <<Cur>>, 1, Cur, heap)
    /\ stack' = SetTop(end_iteration(Top, <<Cur>>))
    /\ UNCHANGED <<Inputs, heap, dgroups, pc, ret, err, phase, first, src>>

LoopDelete ==
    /\ InLoop
    /\ heap[Cur].config_name # "_self_"
    /\ ~is_package_rename(heap[Cur])
    /\ heap[Cur].is_delete
    /\ dgroups' = IF HasKey(dgroups, DeleteKey(heap[Cur])) THEN dgroups
                  ELSE Append(dgroups, [key |-> DeleteKey(heap[Cur]), count |-> 0])
    /\ g2c' = register_choices(g2c, <<Cur>>, 1, Cur, heap)
    /\ stack' = SetTop(end_iteration(Top, <<Cur>>))
    /\ UNCHANGED <<Inputs, heap, pc, ret, err, phase, first, src>>

IsDeferredKind(e) ==
    /\ e.config_name # "_self_"
    /\ ~is_package_rename(e)
    /\ ~e.is_delete

LoopOverride ==
    /\ InLoop
    /\ IsDeferredKind(heap[Cur])
    /\ heap[Cur].from_override
    /\ g2c' = register_choices(g2c, <<Cur>>, 1, Cur, heap)
    /\ stack' = SetTop([end_iteration(Top, <<Cur>>) EXCEPT !.deferred = Append(@, Cur)])
    /\ UNCHANGED <<Inputs, heap, dgroups, pc, ret, err, phase, first, src>>

LoopInterpolation ==
    /\ InLoop
    /\ IsDeferredKind(heap[Cur])
    /\ ~heap[Cur].from_override
    /\ is_interpolation(heap[Cur])
    /\ g2c' = register_choices(g2c, <<Cur>>, 1, Cur, heap)
    /\ stack' = SetTop([end_iteration(Top, <<Cur>>) EXCEPT !.deferred = Append(@, Cur)])
    /\ UNCHANGED <<Inputs, heap, dgroups, pc, ret, err, phase, first, src>>

\* lines 290-302: a plain group selection
LoopPlain ==
    /\ InLoop
    /\ IsDeferredKind(heap[Cur])
    /\ ~heap[Cur].from_override
    /\ ~is_interpolation(heap[Cur])
    /\ LET f == Top
           d == Cur
           fqgn == fully_qualified_group_name(heap[d])
           dm == delete_if_matching(dgroups, d, heap)
           h1 == IF fqgn \in DOMAIN g2c
                 THEN [heap EXCEPT ![d].config_name = g2c[fqgn]] ELSE heap
           out == compute_element_defaults_list_impl(d, h1, dgroups, rlist)
       IN  IF dm.matched
           THEN /\ heap' = dm.heap
                /\ dgroups' = dm.dg
                /\ g2c' = register_choices(g2c, <<d>>, 1, d, dm.heap)
                /\ stack' = SetTop(end_iteration(f, <<d>>))
                /\ UNCHANGED <<pc, err>>
           ELSE Call(out, [f EXCEPT !.d = d, !.decl = heap[d].config_name],
                     [end_iteration(f, out.sub) EXCEPT !.src =
                        (IF out.sub = <<>> THEN <<>>
                         ELSE <<Selection(fqgn, heap[d].config_name)>>) \o @],
                     register_choices(g2c, out.sub, Len(out.sub), d, out.heap))
    /\ UNCHANGED <<Inputs, ret, phase, first, src>>

\* lines 317-318 with the activation left in its loop
LoopEndRepeated ==
    /\ pc = "running" /\ stack # <<>> /\ Top.at = "loop" /\ Top.i = 0
    /\ stack' = SetTop([Top EXCEPT !.result = Flatten(Reverse(Top.ret))])
    /\ UNCHANGED <<Inputs, heap, g2c, dgroups, pc, ret, err, phase, first, src>>

\* lines 317-318
LoopEnd ==
    /\ pc = "running" /\ stack # <<>> /\ Top.at = "loop" /\ Top.i = 0
    /\ stack' = SetTop([Top EXCEPT !.result = Flatten(Reverse(Top.ret)), !.at = "renames"])
    /\ UNCHANGED <<Inputs, heap, g2c, dgroups, pc, ret, err, phase, first, src>>

ProcessRenames ==
    /\ pc = "running" /\ stack # <<>> /\ Top.at = "renames"
    /\ LET r == process_renames(Top.result, heap)
       IN  IF r.err # NONE
           THEN /\ Raise(Exception(r.err, NONE))
                /\ UNCHANGED heap
           ELSE /\ heap' = r.heap
                /\ stack' = SetTop([Top EXCEPT !.result = r.defaults, !.at = "verify"])
                /\ UNCHANGED <<pc, err>>
    /\ UNCHANGED <<Inputs, g2c, dgroups, ret, phase, first, src>>

\* line 321, and the copy of group_to_choice of line 326
VerifyNoAddConflicts ==
    /\ pc = "running" /\ stack # <<>> /\ Top.at = "verify"
    /\ LET e == verify_no_add_conflicts(Top.result, heap)
       IN  IF e # NONE
           THEN Raise(Exception(e, NONE))
           ELSE /\ stack' = SetTop([Top EXCEPT !.g2c2 = g2c, !.j = 1, !.at = "deferred"])
                /\ UNCHANGED <<pc, err>>
    /\ UNCHANGED <<Inputs, heap, g2c, dgroups, ret, phase, first, src>>

\* lines 335-346 for one deferred entry
ExpandDeferred ==
    /\ pc = "running" /\ stack # <<>> /\ Top.at = "deferred"
    /\ Top.j <= Len(Top.deferred)
    /\ LET f == Top
           d == f.deferred[f.j]
           interp == is_interpolation(heap[d])
           key == InterpolationKey[heap[d].config_name]
           h1 == IF interp THEN [heap EXCEPT ![d].config_name = f.g2c2[key]] ELSE heap
           out == compute_element_defaults_list_impl(d, h1, dgroups, rlist)
       IN  IF interp /\ key \notin DOMAIN f.g2c2
           THEN /\ Raise(Exception("InterpolationError", NONE))
                /\ UNCHANGED <<heap, dgroups, g2c>>
           ELSE Call(out, [f EXCEPT !.decl = heap[d].config_name],
                     end_deferred(f, out.sub, out.heap), g2c)
    /\ UNCHANGED <<Inputs, ret, phase, first, src>>

Returning ==
    /\ pc = "running" /\ stack # <<>> /\ Top.at = "deferred"
    /\ Top.j > Len(Top.deferred)

Deduped == dedup(Top.result, 1, {}, heap)
Caller == stack[Len(stack) - 1]
Popped(f) == [SubSeq(stack, 1, Len(stack) - 1) EXCEPT ![Len(stack) - 1] = f]

\* lines 348-360, returning to compute_element_defaults_list or _expand_defaults_list
ReturnToTop ==
    /\ Returning
    /\ Len(stack) = 1
    /\ ret' = Deduped
    /\ stack' = <<>>
    /\ pc' = "post"
    /\ src' = Top.src
    /\ UNCHANGED <<Inputs, heap, g2c, dgroups, err, phase, first>>

\* lines 348-360, returning to line 297 and on through lines 304-315
ReturnToLoop ==
    /\ Returning
    /\ Len(stack) > 1
    /\ Caller.at = "loop"
    /\ g2c' = register_choices(g2c, Deduped, Len(Deduped), Caller.d, heap)
    /\ stack' = Popped([end_iteration(Caller, Deduped) EXCEPT !.src = Top.src \o @])
    /\ UNCHANGED <<Inputs, heap, dgroups, pc, ret, err, phase, first, src>>

\* lines 348-360, returning to line 339 and on through lines 345-346
ReturnToDeferred ==
    /\ Returning
    /\ Len(stack) > 1
    /\ Caller.at = "deferred"
    /\ stack' = Popped(end_deferred(Caller, Deduped, heap))
    /\ UNCHANGED <<Inputs, heap, g2c, dgroups, pc, ret, err, phase, first, src>>

\* _post_process_deletes, and the return to the caller
PostProcessDeletes ==
    /\ pc = "post"
    /\ LET bad == {k \in 1..Len(dgroups) : dgroups[k].count = 0 /\ dgroups[k].key.must_delete}
           kept == SelectSeq(ret, LAMBDA x : ~heap[x].is_delete)
       IN  IF bad # {}
           THEN /\ Raise(Exception("CouldNotDelete", dgroups[Min(bad)].key))
                /\ UNCHANGED <<ret, first>>
           ELSE /\ ret' = kept
                /\ pc' = "done"
                /\ first' = IF phase = 1 THEN Values(kept, heap) ELSE first
                /\ UNCHANGED <<stack, err>>
    /\ UNCHANGED <<Inputs, heap, g2c, dgroups, phase, src>>

Next ==
    \/ ComputeElementDefaultsList
    \/ ExpandDefaultsList
    \/ ExpandAgain
    \/ LoopSelf
    \/ LoopRename
    \/ LoopDelete
    \/ LoopOverride
    \/ LoopInterpolation
    \/ LoopPlain
    \/ LoopEnd
    \/ ProcessRenames
    \/ VerifyNoAddConflicts
    \/ ExpandDeferred
    \/ ReturnToTop
    \/ ReturnToLoop
    \/ ReturnToDeferred
    \/ PostProcessDeletes

Spec == Init /\ [][Next]_vars

\* the steps a call takes when its tree holds plain selections only
NextPlain ==
    \/ ComputeElementDefaultsList
    \/ ExpandDefaultsList
    \/ ExpandAgain
    \/ LoopSelf
    \/ LoopPlain
    \/ LoopEnd
    \/ ProcessRenames
    \/ VerifyNoAddConflicts
    \/ ReturnToTop
    \/ ReturnToLoop
    \/ PostProcessDeletes

SpecPlain == InitPlain /\ [][NextPlain]_vars

\* the interpreter runs the call (one thread, no suspension point): a step
\* that can be taken is taken
FairSpec == InitFair /\ [][Next]_vars /\ WF_vars(Next)

----------------------------------------------------------------------------
(* Properties *)

Returned == pc = "done"
Out == Values(ret, heap)

\* positions of the returned list holding a surviving entry of group G
Survivors(G) ==
    {k \in 1..Len(Out) : /\ Out[k].config_group # NONE
                         /\ ~Out[k].is_deleted
                         /\ fully_qualified_group_name(Out[k]) = G}

\* positions of src that select group G
Decls(G) == {k \in 1..Len(src) : src[k].fqgn = G}

SelectedGroups == {src[k].fqgn : k \in {x \in 1..Len(src) : src[x].fqgn[1] # NONE}}

\* C1: a returned list holds at most one entry that is not flagged
\* is_deleted for each fully-qualified group name
C1_AtMostOneSurvivor ==
    Returned =>
        \A i, j \in 1..Len(Out) :
            ( /\ i < j
              /\ Out[i].config_group # NONE /\ Out[j].config_group # NONE
              /\ ~Out[i].is_deleted /\ ~Out[j].is_deleted )
            => fully_qualified_group_name(Out[i]) # fully_qualified_group_name(Out[j])

\* a list is returned for a tree that selects some group more than once
C1_Witness ==
    /\ Returned
    /\ \E G \in SelectedGroups : Cardinality(Decls(G)) >= 2 /\ Survivors(G) # {}

\* an entry that is a plain selection (or _self_): no directive, no
\* override, no interpolation, not optional
IsPlainEntry(e) ==
    /\ ~is_package_rename(e) /\ ~e.is_delete /\ ~e.from_override
    /\ ~is_interpolation(e) /\ ~e.optional

\* the whole defaults tree of the call is made of plain selections
AllPlain ==
    /\ IsPlainEntry(element)
    /\ \A k \in 1..Len(rlist) : IsPlainEntry(rlist[k])
    /\ \A k \in 1..Len(seed) : IsPlainEntry(seed[k])

\* positions of the list passed to expand_defaults_list that select group G
SeedDecls(G) ==
    {k \in 1..Len(seed) : seed[k].config_group # NONE
                          /\ fully_qualified_group_name(seed[k]) = G}

\* the survivor of G stands where the first-declared entry of G stands:
\* before the survivor of H exactly when G is declared before H
PositionOfFirst(G) ==
    \A H \in SelectedGroups \ {G} :
        \A i \in Survivors(G), j \in Survivors(H) :
            (i < j) <=> (Min(Decls(G)) < Min(Decls(H)))

FirstExpand == mode = "expand" /\ phase = 1

IsAddOverride(e) == e.from_override /\ e.is_add_only /\ ~e.is_delete

IsPlainOverride(e) ==
    e.from_override /\ ~e.is_add_only /\ ~e.is_delete /\ ~is_package_rename(e)

\* C3 as claimed: an additive override for a group that is present in the
\* resolved list makes the call raise: a list that is returned holds no
\* surviving entry of the group other than the override's own
C3_AddToPresentGroupRaises ==
    (FirstExpand /\ Returned) =>
        \A k \in 1..Len(seed) :
            IsAddOverride(seed[k]) =>
                \A j \in 1..Len(Out) :
                    ( /\ Out[j].config_group # NONE
                      /\ ~Out[j].is_deleted
                      /\ fully_qualified_group_name(Out[j]) =
                             fully_qualified_group_name(seed[k]) )
                    => Out[j].is_add_only

\* _verify_no_add_conflicts is about to run on the flattened list of the
\* list passed to expand_defaults_list
AtTopVerify ==
    /\ FirstExpand /\ pc = "running" /\ Len(stack) = 1 /\ Top.at = "verify"

\* no entry standing before position k of the flattened list belongs to the
\* group of the entry at k
NoEarlierOfGroup(k) ==
    \A j \in 1..(k - 1) :
        fully_qualified_group_name(heap[Top.result[j]]) #
            fully_qualified_group_name(heap[Top.result[k]])

\* position k of the flattened list holds a non-additive, non-delete,
\* non-rename override of a group no earlier entry belongs to
Unmatched(k) == IsPlainOverride(heap[Top.result[k]]) /\ NoEarlierOfGroup(k)

\* an additive override stands after position k, behind an entry of its group
LaterAddCollides(k) ==
    \E m \in (k + 1)..Len(Top.result) :
        IsAddOverride(heap[Top.result[m]]) /\ ~NoEarlierOfGroup(m)

OverrideDeletes == {k \in 1..Len(seed) : seed[k].is_delete /\ seed[k].from_override}

NoRename == \A k \in 1..Len(seed) : ~is_package_rename(seed[k])

\* the entries flagged is_deleted of the group the key names, with the name
\* the key names if it names one
DeletedOfGroup(key) ==
    {x \in 1..Len(heap) : /\ heap[x].is_deleted
                          /\ heap[x].config_group = key.fqgn[1]
                          /\ key.config_name \in {NONE, heap[x].config_name}}

\* those of them that stand in the package the key names
DeletedBy(key) == {x \in DeletedOfGroup(key) : heap[x].package = key.fqgn[2]}

FragmentDeletes == {k \in 1..Len(rlist) : rlist[k].is_delete}

\* the directive at position k of the fragment's list names the group of
\* entry e, and its name if the directive names one
DirectiveNames(k, e) ==
    /\ rlist[k].config_group = e.config_group
    /\ rlist[k].config_name \in {"_delete_", e.config_name}

Chain(e, r1, r2) ==
    /\ r1 < r2
    /\ IsPlainEntry(rlist[e]) /\ rlist[e].config_group # NONE
    /\ is_package_rename(rlist[r1]) /\ is_package_rename(rlist[r2])
    /\ rlist[r1].config_group = rlist[e].config_group
    /\ rlist[r2].config_group = rlist[e].config_group
    /\ rlist[r1].package = rlist[e].package
    /\ rlist[r2].package = rlist[r1].package2
    /\ \A k \in 1..Len(rlist) : k \in {e, r1, r2} \/ rlist[k] = Self

\* C7 as claimed: with a rename p1:p2 and a later-declared rename p2:p3 the
\* expansion succeeds and the entry ends with package p3
C7_RenameChain ==
    \A e, r1, r2 \in 1..Len(rlist) :
        (mode = "compute" /\ phase = 1 /\ pc \in {"done", "error"} /\ Chain(e, r1, r2))
        => /\ Returned
           /\ \E j \in 1..Len(Out) :
                 /\ Out[j].config_group = rlist[e].config_group
                 /\ Out[j].package = rlist[r2].package2

\* _process_renames is about to run on a flattened list whose last rename
\* directive (the one it takes first) names a group and source package that
\* no entry other than a rename directive has
LastRenameUnmatched ==
    /\ pc = "running" /\ stack # <<>> /\ Top.at = "renames" /\ phase = 1
    /\ LET renames == {k \in 1..Len(Top.result) : is_package_rename(heap[Top.result[k]])}
       IN  /\ renames # {}
           /\ \A k \in 1..Len(Top.result) :
                 \/ is_package_rename(heap[Top.result[k]])
                 \/ heap[Top.result[k]].config_group #
                        heap[Top.result[Max(renames)]].config_group
                 \/ heap[Top.result[k]].package #
                        heap[Top.result[Max(renames)]].package

\* C8 as claimed: a rename directive whose group and source package no real
\* entry of the flattened list has raises 'Could not rename package';
\* another rename directive does not count as a match
C8_RenameNeedsRealEntry ==
    [][ LastRenameUnmatched => (pc' = "error" /\ err'.kind = "CouldNotRename") ]_vars

\* the entries of the list compute_element_defaults_list returned that have
\* no config group
Ungrouped == {k \in 1..Len(first) : first[k].config_group = NONE}

Selfs(l) == {k \in 1..Len(l) : heap[l[k]].config_name = "_self_"}

\* C10: a fragment whose list declares _self_ twice or more raises
\* 'Duplicate _self_ defined in' naming the fragment, nothing else raises
\* it, and the normalized list of every loaded fragment holds one _self_
C10_OneSelfPerFragment ==
    /\ \A k \in 1..Len(stack) :
           stack[k].self_name # NONE => Cardinality(Selfs(stack[k].defaults)) = 1
    /\ ( /\ mode = "compute" /\ element = Primary("root") /\ pc # "start"
         /\ Cardinality({k \in 1..Len(rlist) : rlist[k] = Self}) >= 2 )
       => (pc = "error" /\ err.kind = "DuplicateSelf" /\ err.about = config_path(element))
    /\ err.kind = "DuplicateSelf" =>
           Cardinality({k \in 1..Len(load_config(err.about, rlist).defaults_list) :
                           load_config(err.about, rlist).defaults_list[k] = Self}) >= 2

\* the fragment declared _self_ twice and the error was raised
C10_Witness ==
    /\ pc = "error" /\ err.kind = "DuplicateSelf"
    /\ Cardinality({k \in 1..Len(rlist) : rlist[k] = Self}) >= 2

\* the entry the loop is at, named as the recorded choice of its group when
\* the group has one (line 295)
Chosen ==
    IF fully_qualified_group_name(heap[Cur]) \in DOMAIN g2c
    THEN [heap[Cur] EXCEPT !.config_name = g2c[fully_qualified_group_name(heap[Cur])]]
    ELSE heap[Cur]

\* the loop is at a plain selection that no pending delete matches and
\* whose path the loader does not find
AtMissingSelection ==
    /\ InLoop
    /\ IsDeferredKind(heap[Cur]) /\ ~heap[Cur].from_override /\ ~is_interpolation(heap[Cur])
    /\ \A k \in 1..Len(dgroups) :
          ~KeyMatches(dgroups[k].key, heap[Cur]) /\ ~KeyMatches(dgroups[k].key, Chosen)
    /\ ~load_config(config_path(Chosen), rlist).found

\* C11: a selection the loader does not find raises the missing-config error
\* when it is not optional; when it is optional nothing is raised, nothing
\* is loaded and the entry itself, flagged skip_load, is the whole sublist
C11_MissingOptionalOrError ==
    [][ AtMissingSelection =>
          IF heap[Cur].optional
          THEN /\ pc' = "running"
               /\ Len(stack') = Len(stack)
               /\ Len(heap') = Len(heap)
               /\ stack'[Len(stack)].ret = Append(Top.ret, <<Cur>>)
               /\ heap'[Cur].skip_load
          ELSE /\ pc' = "error"
               /\ err'.kind = "MissingConfig"
               /\ err'.about = config_path(Chosen) ]_vars

\* a list is returned that holds a missing optional entry flagged skip_load
\* next to a selection that was loaded
C11_Witness ==
    /\ Returned /\ phase = 1 /\ Len(Out) >= 3
    /\ \E j \in 1..Len(Out) :
          /\ Out[j].optional /\ Out[j].skip_load /\ ~Out[j].is_deleted
          /\ ~load_config(config_path(Out[j]), rlist).found

\* the running activation is about to return the expansion of a loaded
\* fragment whose declared list holds no _self_
ReturningWithoutSelf ==
    /\ Returning
    /\ Top.self_name # NONE
    /\ \A k \in 1..Len(Top.original) : Top.original[k].config_name # "_self_"

\* the fragment compute_element_defaults_list is called for loads and
\* declares an empty defaults list
NoNestedDefaults ==
    /\ mode = "compute" /\ phase = 1
    /\ load_config(config_path(element), rlist) = Found(<<>>)

\* the _self_ entry the running activation was given, and its group
OwnSelf == heap[Top.defaults[1]]
OwnGroup == fully_qualified_group_name(OwnSelf)

SeedHasSelf == \E k \in 1..Len(seed) : seed[k].config_name = "_self_"

\* C13: expand_defaults_list on a list that holds _self_ returns no list:
\* it raises 'self_name is not specified'
C13_SelfWithoutName ==
    /\ []((mode = "expand" /\ SeedHasSelf) => pc \notin {"post", "done"})
    /\ [][ (InLoop /\ Top.self_name = NONE /\ heap[Cur].config_name = "_self_")
           => (pc' = "error" /\ err'.kind = "SelfNameNotSpecified") ]_vars

\* the error was raised after the entries standing behind _self_ in the
\* list had been expanded
C13_Witness ==
    /\ mode = "expand" /\ SeedHasSelf
    /\ pc = "error" /\ err.kind = "SelfNameNotSpecified"
    /\ Len(seed) >= 2 /\ seed[1].config_name = "_self_"
    /\ Len(heap) > Len(seed)

\* the entries of all the lists the caller wrote
Declared == {rlist[k] : k \in 1..Len(rlist)} \cup {seed[k] : k \in 1..Len(seed)}

\* C14: a returned list holds no delete directive and no package-rename
\* directive
C14_NoDirectiveInOutput ==
    Returned =>
        \A j \in 1..Len(Out) : ~Out[j].is_delete /\ ~is_package_rename(Out[j])

\* a list is returned for a call whose lists declare a delete directive
\* and a rename directive
C14_Witness ==
    /\ Returned /\ phase = 1
    /\ \E e \in Declared : e.is_delete
    /\ \E e \in Declared : is_package_rename(e)
    /\ Len(Out) >= 2

\* positions of the rename directives of the list _process_renames is given
RenamesAt == {k \in 1..Len(Top.result) : is_package_rename(heap[Top.result[k]])}

\* positions before the directive at r whose entry has the directive's
\* group and source package
PriorMatches(r) ==
    {k \in 1..(r - 1) :
        /\ heap[Top.result[k]].config_group = heap[Top.result[r]].config_group
        /\ heap[Top.result[k]].package = heap[Top.result[r]].package}

\* positions whose entry has its package changed by the step
Repackaged ==
    {k \in 1..Len(Top.result) : heap'[Top.result[k]].package # heap[Top.result[k]].package}

\* C15 as claimed: resolving the one rename directive of a list changes the
\* package of the first matching entry standing before the directive, and
\* of no other entry
C15_RenameChangesOneEntry ==
    [][ \A r \in 1..Len(heap) :
          ( /\ pc = "running" /\ stack # <<>> /\ Top.at = "renames"
            /\ RenamesAt = {r}
            /\ pc' = "running" )
          => (PriorMatches(r) # {} /\ Repackaged = {Min(PriorMatches(r))}) ]_vars

\* position j of the list the deduplication pass is given holds a real,
\* non-deleted entry of a group, and every entry of that group standing
\* before it is a delete directive (at least one is)
FirstRealAfterDelete(j) ==
    LET d == heap[Top.result[j]]
        before == {k \in 1..(j - 1) :
                      fully_qualified_group_name(heap[Top.result[k]]) =
                          fully_qualified_group_name(d)}
    IN  /\ d.config_group # NONE
        /\ ~d.is_delete /\ ~d.is_deleted
        /\ before # {}
        /\ \A k \in before : heap[Top.result[k]].is_delete

\* C16 as claimed: a delete directive does not mark its group as seen, so
\* the real entry of the group that stands after it is kept
C16_RealEntryAfterDeleteKept ==
    Returning =>
        \A j \in 1..Len(Top.result) :
            FirstRealAfterDelete(j) => \E k \in 1..Len(Deduped) : Deduped[k] = Top.result[j]

\* the loop is at a plain selection that a pending delete key matches, as
\* declared or once named as the recorded choice of its group
AtDeletedSelection ==
    /\ InLoop
    /\ IsDeferredKind(heap[Cur]) /\ ~heap[Cur].from_override /\ ~is_interpolation(heap[Cur])
    /\ \E k \in 1..Len(dgroups) :
          KeyMatches(dgroups[k].key, heap[Cur]) \/ KeyMatches(dgroups[k].key, Chosen)

\* C17 as claimed: a plain selection matched by a pending delete is not
\* loaded and is the single entry of its sublist, flagged is_deleted, also
\* when it matches only under the recorded choice of its group
C17_DeletedSelectionIsSingleton ==
    [][ AtDeletedSelection =>
          /\ pc' = "running"
          /\ Len(stack') = Len(stack)
          /\ Len(heap') = Len(heap)
          /\ stack'[Len(stack)].ret = Append(Top.ret, <<Cur>>)
          /\ heap'[Cur].is_deleted ]_vars

\* the deferred entries the pass of the running activation has handled
Handled == {Top.deferred[i] : i \in 1..(Top.j - 1)}

\* C18 as claimed: once the deferred pass has handled a placeholder, the
\* placeholder object is no longer in the list
C18_PlaceholderReplaced ==
    (pc = "running" /\ stack # <<>> /\ Top.at = "deferred") =>
        \A k \in 1..Len(Top.result) : Top.result[k] \notin Handled

\* C19: within one top-level call a group that has a recorded choice keeps
\* that choice: no step of the call changes or removes an entry of
\* group_to_choice
C19_ChoiceWrittenOnce ==
    [][ pc \notin {"start", "done"} =>
          \A G \in DOMAIN g2c : G \in DOMAIN g2c' /\ g2c'[G] = g2c[G] ]_vars

\* a call ended with choices recorded for two groups, one of them selected
\* in its tree under two different names
C19_Witness ==
    /\ Returned /\ phase = 1
    /\ Cardinality(DOMAIN g2c) >= 2
    /\ \E G \in DOMAIN g2c : \E i, j \in Decls(G) : src[i].name # src[j].name

\* C20: every call of compute_element_defaults_list and of
\* expand_defaults_list ends, returning a list or raising: the call of
\* expand_defaults_list, and the call of compute_element_defaults_list
\* followed by the call of expand_defaults_list on its result
C20_Terminates ==
    <>(\/ pc = "error"
       \/ pc = "done" /\ (mode = "expand" \/ phase = 2))

\* a call returned after a rename loop of two iterations and nested loads
C20_Witness ==
    /\ Returned /\ phase = 1
    /\ Cardinality({k \in 1..Len(rlist) : is_package_rename(rlist[k])}) >= 2
    /\ Len(heap) > Len(rlist) + 4
    /\ \E j \in 1..Len(Out) : Out[j].package = "p2"

----------------------------------------------------------------------------
\* the activations whose list is the list load_config handed back (line
\* 158), as opposed to the list passed to expand_defaults_list
FromLoader(k) == k > 1 \/ (mode = "compute" /\ phase = 1)

\* the loader's list of activation k, as it is now
LoaderList(k) == Values(stack[k].defaults, heap)

\* C21: expansion leaves the defaults lists returned by the loader
\* unchanged: while a fragment is being expanded, the list the loader
\* handed back for it holds the entries it held when it was loaded (none
\* inserted, renamed, re-grouped or flagged), so that a loader handing back
\* the same list again gives the same result
C21_LoaderListsUnchanged ==
    \A k \in 1..Len(stack) :
        FromLoader(k) => LoaderList(k) = stack[k].original

====
